---- MODULE Spec2Model ----
(***************************************************************************)
(* CostPathway::run (src/src/tools/gis_analysis/cost_pathway.rs): the      *)
(* row-major scan over the destination raster and the back-link trace      *)
(* that accumulates, per cell, the number of pathways passing through it.  *)
(*                                                                         *)
(* Raster values are f64 in the code; every value the scan produces from   *)
(* integer inputs is an integer, so cells are modelled as integers.        *)
(***************************************************************************)
EXTENDS Integers, FiniteSets, Sequences, TLC

\* Largest number of cells (rows * columns) of the input rasters that are
\* enumerated in full.
MaxCells == 3

\* f64::NEG_INFINITY, the "flag not given" value of background_val.
NegInfinity == -1000000

\* Length of the pntr_matches array.
PntrMatchesLen == 129

\* NoData values of the back-link raster that are tried (negative, as in the
\* rasters CostDistance writes).
NoDataVals == {-32768}

\* A trace is followed for at most this many iterations of the while loop
\* (the loop itself has no bound; a cyclic chain is cut here).
StepCap == MaxCells + 2

Shapes == {sh \in (1..MaxCells) \X (1..MaxCells) : sh[1] * sh[2] <= MaxCells}

Cells(rows, columns) == (0..(rows - 1)) \X (0..(columns - 1))

\* Values of a destination cell: background (0) or destination (> 0).
DestinationVals == {0, 5}

\* Values of a back-link cell: NoData, a source cell (0), the codes for
\* E, S, W, a value below 129 that is no code (3) and one above 128 (200).
PointerVals(nd) == {nd, 0, 2, 8, 32, 3, 200}

VARIABLES
    destination,      \* [rows, columns, data]: the destination raster
    backlink,         \* [rows, columns, nodata, data]: the back-link raster
    zero_background,  \* TRUE iff --zero_background was among the arguments
    background_val,   \* background_val
    output,           \* [rows, columns, data]: the output raster (in memory)
    paired,           \* data of the output raster of the run on the same
                      \* rasters with the other --zero_background setting
    row, col,         \* position of the scan
    x, y,             \* position of the trace
    flag,             \* flag of the while loop
    pc,               \* "start", "scan", "trace", "done", "invalid_input", "aborted"
    written,          \* TRUE once output.write() has returned Ok
    steps,            \* iterations of the while loop made by the current trace
    trace_state,      \* "Idle", "Active", "Terminal" (flag = true)
    misindexed,       \* TRUE once dx/dy were indexed through a dir that is no code
    offgrid           \* TRUE once a raster was indexed outside its extents

vars == <<destination, backlink, zero_background, background_val, output, paired,
          row, col, x, y, flag, pc, written, steps, trace_state, misindexed, offgrid>>

----------------------------------------------------------------------------
\* The direction table.

\* dx holding the offsets of dy.
dx_as_dy == <<-1, 0, 1, 1, 1, 0, -1, -1>>

dx == <<1, 1, 1, 0, -1, -1, -1, 0>>
dy == <<-1, 0, 1, 1, 1, 0, -1, -1>>

\* pntr_matches with code 16 given the slot of north.
pntr_matches_sixteen_north(d) ==
    CASE d = 1 -> 0
      [] d = 2 -> 1
      [] d = 4 -> 2
      [] d = 8 -> 3
      [] d = 16 -> 7
      [] d = 32 -> 5
      [] d = 64 -> 6
      [] d = 128 -> 7
      [] OTHER -> 0

\* pntr_matches[d] for 0 <= d < 129: all zeros but the eight codes.
pntr_matches(d) ==
    CASE d = 1 -> 0
      [] d = 2 -> 1
      [] d = 4 -> 2
      [] d = 8 -> 3
      [] d = 16 -> 4
      [] d = 32 -> 5
      [] d = 64 -> 6
      [] d = 128 -> 7
      [] OTHER -> 0

ValidCodes == {1, 2, 4, 8, 16, 32, 64, 128}

\* dx[pntr_matches[dir as usize]] (TLA+ sequences are 1-based).
StepX(dir) == dx[pntr_matches(dir) + 1]
StepY(dir) == dy[pntr_matches(dir) + 1]

----------------------------------------------------------------------------
\* The rasters.

InGrid(r, yy, xx) == yy >= 0 /\ yy < r.rows /\ xx >= 0 /\ xx < r.columns

\* What indexing a raster outside its extents does: the access fails and the
\* run is aborted, or it yields the NoData value and a write has no effect.
OutOfRangeOutcomes == {"abort", "nodata"}

DestinationRasters(sh, full) ==
    { [rows |-> sh[1], columns |-> sh[2], data |-> d] :
        d \in IF full THEN [Cells(sh[1], sh[2]) -> DestinationVals]
                      ELSE {[p \in Cells(sh[1], sh[2]) |-> 0]} }

BacklinkRasters(sh, nd, full) ==
    { [rows |-> sh[1], columns |-> sh[2], nodata |-> nd, data |-> d] :
        d \in IF full THEN [Cells(sh[1], sh[2]) -> PointerVals(nd)]
                      ELSE {[p \in Cells(sh[1], sh[2]) |-> nd]} }

\* Visit with the increment lost: a visited cell is always set to 1.
VisitWithoutIncrement(data, bg, yy, xx) ==
    [data EXCEPT ![<<yy, xx>>] = 1]

\* Visit with the test for the background value lost: always an increment.
VisitAlwaysIncrement(data, bg, yy, xx) ==
    [data EXCEPT ![<<yy, xx>>] = @ + 1]

\* if output[(y, x)] == background_val { output[(y, x)] = 1.0 } else { increment }
Visit(data, bg, yy, xx) ==
    IF data[<<yy, xx>>] = bg
    THEN [data EXCEPT ![<<yy, xx>>] = 1]
    ELSE [data EXCEPT ![<<yy, xx>>] = @ + 1]

\* dir != nodata && dir > 0.0
Continues(dir, nd) == dir # nd /\ dir > 0

\* IsTraceStart with the test of the back-link lost.
IsTraceStartIgnoringBacklink(r, c) ==
    destination.data[<<r, c>>] > 0

\* destination[(row, col)] > 0.0 && backlink[(row, col)] != nodata
IsTraceStart(r, c) ==
    destination.data[<<r, c>>] > 0 /\ backlink.data[<<r, c>>] # backlink.nodata

\* SizeMismatch with the comparison of the columns lost.
SizeMismatchRowsOnly ==
    destination.rows # backlink.rows

\* BackgroundValue with the --zero_background flag ignored.
BackgroundValueIgnoringFlag(bv, nd) == nd

\* if background_val == f64::NEG_INFINITY { background_val = nodata; }
BackgroundValue(bv, nd) == IF bv = NegInfinity THEN nd ELSE bv

\* The rasters differ in size.
SizeMismatch ==
    destination.rows # backlink.rows \/ destination.columns # backlink.columns

\* The column and row the scan visits after (r, c).
NextCol(c) == IF c + 1 < destination.columns THEN c + 1 ELSE 0
NextRow(r, c) == IF c + 1 < destination.columns THEN r ELSE r + 1

----------------------------------------------------------------------------
\* Every pair of rasters of at most MaxCells cells. Rasters of different
\* sizes are never scanned: their cells are uniform.
EnumeratedInputs ==
    \E sd \in Shapes, sb \in Shapes, nd \in NoDataVals :
        /\ destination \in DestinationRasters(sd, sd = sb)
        /\ backlink \in BacklinkRasters(sb, nd, sd = sb)

\* The 3x3 example: NoData = -1, one destination at (2,0), back-link 16 at
\* (2,0) and at (1,0), NoData elsewhere.
ExampleDestination ==
    [rows |-> 3, columns |-> 3,
     data |-> [p \in Cells(3, 3) |-> IF p = <<2, 0>> THEN 5 ELSE 0]]

ExampleBacklink ==
    [rows |-> 3, columns |-> 3, nodata |-> -1,
     data |-> [p \in Cells(3, 3) |-> IF p \in {<<2, 0>>, <<1, 0>>} THEN 16 ELSE -1]]

ExampleInputs ==
    /\ destination = ExampleDestination
    /\ backlink = ExampleBacklink

\* 3x3 rasters with one destination, at the centre, whose back-link is one of
\* the eight codes; the other cells are all NoData or all source cells.
CompassInputs ==
    \E nd \in NoDataVals, code \in ValidCodes : \E rest \in {nd, 0} :
        /\ destination =
              [rows |-> 3, columns |-> 3,
               data |-> [p \in Cells(3, 3) |-> IF p = <<1, 1>> THEN 5 ELSE 0]]
        /\ backlink =
              [rows |-> 3, columns |-> 3, nodata |-> nd,
               data |-> [p \in Cells(3, 3) |-> IF p = <<1, 1>> THEN code ELSE rest]]

\* The state after the arguments are parsed and both rasters are read.
Init ==
    /\ \/ EnumeratedInputs
       \/ ExampleInputs
       \/ CompassInputs
    /\ zero_background \in BOOLEAN
    /\ background_val = IF zero_background THEN 0 ELSE NegInfinity
    /\ output = [rows |-> 0, columns |-> 0, data |-> <<>>]
    /\ paired = <<>>
    /\ row = 0 /\ col = 0 /\ x = 0 /\ y = 0
    /\ flag = FALSE
    /\ pc = "start"
    /\ written = FALSE
    /\ steps = 0
    /\ trace_state = "Idle"
    /\ misindexed = FALSE
    /\ offgrid = FALSE

\* The size check fails: Err(InvalidInput).
RejectInputs ==
    /\ pc = "start"
    /\ SizeMismatch
    /\ pc' = "invalid_input"
    /\ UNCHANGED <<destination, backlink, zero_background, background_val, output,
                   paired, row, col, x, y, flag, written, steps, trace_state,
                   misindexed, offgrid>>

\* The size check passes: background_val is settled and the output raster is
\* created from the destination raster and filled with background_val.
Initialize ==
    /\ pc = "start"
    /\ ~SizeMismatch
    /\ LET bg == BackgroundValue(background_val, backlink.nodata)
           other == IF zero_background THEN backlink.nodata ELSE 0
           cells == Cells(destination.rows, destination.columns)
       IN /\ background_val' = bg
          /\ output' = [rows |-> destination.rows, columns |-> destination.columns,
                        data |-> [p \in cells |-> bg]]
          /\ paired' = [p \in cells |-> other]
    /\ pc' = "scan"
    /\ UNCHANGED <<destination, backlink, zero_background, row, col, x, y, flag,
                   written, steps, trace_state, misindexed, offgrid>>

AtCell == pc = "scan" /\ row < destination.rows

\* The scan reaches a destination cell with a back-link: a trace starts.
BeginTrace ==
    /\ AtCell
    /\ IsTraceStart(row, col)
    /\ flag' = FALSE
    /\ x' = col
    /\ y' = row
    /\ steps' = 0
    /\ trace_state' = "Active"
    /\ pc' = "trace"
    /\ UNCHANGED <<destination, backlink, zero_background, background_val, output,
                   paired, row, col, written, misindexed, offgrid>>

\* ExcludeCell that leaves alone a cell a trace has already counted.
ExcludeCellUnlessCounted ==
    /\ AtCell
    /\ ~IsTraceStart(row, col)
    /\ backlink.data[<<row, col>>] = backlink.nodata
    /\ output' = IF output.data[<<row, col>>] = background_val
                 THEN [output EXCEPT !.data[<<row, col>>] = backlink.nodata]
                 ELSE output
    /\ paired' = [paired EXCEPT ![<<row, col>>] = backlink.nodata]
    /\ col' = NextCol(col)
    /\ row' = NextRow(row, col)
    /\ UNCHANGED <<destination, backlink, zero_background, background_val, x, y,
                   flag, pc, written, steps, trace_state, misindexed, offgrid>>

\* The scan reaches a cell that starts no trace and has no back-link.
ExcludeCell ==
    /\ AtCell
    /\ ~IsTraceStart(row, col)
    /\ backlink.data[<<row, col>>] = backlink.nodata
    /\ output' = [output EXCEPT !.data[<<row, col>>] = backlink.nodata]
    /\ paired' = [paired EXCEPT ![<<row, col>>] = backlink.nodata]
    /\ col' = NextCol(col)
    /\ row' = NextRow(row, col)
    /\ UNCHANGED <<destination, backlink, zero_background, background_val, x, y,
                   flag, pc, written, steps, trace_state, misindexed, offgrid>>

\* The scan reaches a cell that starts no trace and has a back-link.
SkipCell ==
    /\ AtCell
    /\ ~IsTraceStart(row, col)
    /\ backlink.data[<<row, col>>] # backlink.nodata
    /\ col' = NextCol(col)
    /\ row' = NextRow(row, col)
    /\ UNCHANGED <<destination, backlink, zero_background, background_val, output,
                   paired, x, y, flag, pc, written, steps, trace_state, misindexed,
                   offgrid>>

InTrace == pc = "trace" /\ ~flag /\ steps < StepCap

PairedBackground == IF zero_background THEN backlink.nodata ELSE 0

\* One iteration of the while loop at a cell of the raster whose back-link
\* leads on: the cell is counted and (x, y) moves.
TraceMove ==
    /\ InTrace
    /\ InGrid(output, y, x)
    /\ LET dir == backlink.data[<<y, x>>]
       IN /\ Continues(dir, backlink.nodata)
          /\ dir < PntrMatchesLen
          /\ output' = [output EXCEPT !.data = Visit(@, background_val, y, x)]
          /\ paired' = Visit(paired, PairedBackground, y, x)
          /\ x' = x + StepX(dir)
          /\ y' = y + StepY(dir)
          /\ misindexed' = (misindexed \/ dir \notin ValidCodes)
    /\ steps' = steps + 1
    /\ UNCHANGED <<destination, backlink, zero_background, background_val, row, col,
                   flag, pc, written, trace_state, offgrid>>

\* One iteration of the while loop at a cell whose back-link is beyond the
\* end of pntr_matches: the index panics and the run is aborted.
TracePanic ==
    /\ InTrace
    /\ InGrid(output, y, x)
    /\ LET dir == backlink.data[<<y, x>>]
       IN /\ Continues(dir, backlink.nodata)
          /\ dir >= PntrMatchesLen
          /\ output' = [output EXCEPT !.data = Visit(@, background_val, y, x)]
          /\ paired' = Visit(paired, PairedBackground, y, x)
    /\ misindexed' = TRUE
    /\ steps' = steps + 1
    /\ pc' = "aborted"
    /\ UNCHANGED <<destination, backlink, zero_background, background_val, row, col,
                   x, y, flag, written, trace_state, offgrid>>

\* One iteration of the while loop at a cell whose back-link is NoData or
\* not positive: the cell is counted, the loop ends and the scan goes on.
TraceEnd ==
    /\ InTrace
    /\ InGrid(output, y, x)
    /\ ~Continues(backlink.data[<<y, x>>], backlink.nodata)
    /\ output' = [output EXCEPT !.data = Visit(@, background_val, y, x)]
    /\ paired' = Visit(paired, PairedBackground, y, x)
    /\ flag' = TRUE
    /\ steps' = steps + 1
    /\ trace_state' = "Terminal"
    /\ pc' = "scan"
    /\ col' = NextCol(col)
    /\ row' = NextRow(row, col)
    /\ UNCHANGED <<destination, backlink, zero_background, background_val, x, y,
                   written, misindexed, offgrid>>

\* One iteration of the while loop with (x, y) outside the raster: output and
\* backlink are indexed there all the same.
TraceOffGrid ==
    /\ InTrace
    /\ ~InGrid(output, y, x)
    /\ offgrid' = TRUE
    /\ steps' = steps + 1
    /\ \E outcome \in OutOfRangeOutcomes :
          \/ /\ outcome = "abort"
             /\ pc' = "aborted"
             /\ UNCHANGED <<flag, trace_state, row, col>>
          \/ /\ outcome = "nodata"
             /\ flag' = TRUE
             /\ trace_state' = "Terminal"
             /\ pc' = "scan"
             /\ col' = NextCol(col)
             /\ row' = NextRow(row, col)
    /\ UNCHANGED <<destination, backlink, zero_background, background_val, output,
                   paired, x, y, written, misindexed>>

\* WriteOutput with the scan ended one row early.
WriteOutputBeforeLastRow ==
    /\ pc = "scan"
    /\ row >= destination.rows - 1
    /\ written' = TRUE
    /\ pc' = "done"
    /\ UNCHANGED <<destination, backlink, zero_background, background_val, output,
                   paired, row, col, x, y, flag, steps, trace_state, misindexed,
                   offgrid>>

\* The scan is over: the output raster is written.
WriteOutput ==
    /\ pc = "scan"
    /\ row >= destination.rows
    /\ written' = TRUE
    /\ pc' = "done"
    /\ UNCHANGED <<destination, backlink, zero_background, background_val, output,
                   paired, row, col, x, y, flag, steps, trace_state, misindexed,
                   offgrid>>

Next ==
    \/ RejectInputs
    \/ Initialize
    \/ BeginTrace
    \/ ExcludeCell
    \/ SkipCell
    \/ TraceMove
    \/ TracePanic
    \/ TraceEnd
    \/ TraceOffGrid
    \/ WriteOutput

Spec == Init /\ [][Next]_vars

----------------------------------------------------------------------------
\* The traces, as the back-link raster alone defines them.

GridCells == Cells(destination.rows, destination.columns)

\* The cells of the raster on the chain of back-links that starts at (yy, xx),
\* followed for at most fuel cells.
RECURSIVE Chain(_, _, _)
Chain(yy, xx, fuel) ==
    IF fuel = 0 \/ ~InGrid(destination, yy, xx)
    THEN {}
    ELSE LET dir == backlink.data[<<yy, xx>>]
         IN {<<yy, xx>>} \cup
            (IF Continues(dir, backlink.nodata) /\ dir < PntrMatchesLen
             THEN Chain(yy + StepY(dir), xx + StepX(dir), fuel - 1)
             ELSE {})

\* The cells where a trace starts.
TraceStarts == {p \in GridCells : IsTraceStart(p[1], p[2])}

\* The number of traces that visit each cell (in a run that ends, no chain
\* revisits a cell, so a chain has at most rows * columns cells).
TraceCounts ==
    LET chains == [d \in TraceStarts |->
                     Chain(d[1], d[2], destination.rows * destination.columns)]
    IN [p \in GridCells |-> Cardinality({d \in TraceStarts : p \in chains[d]})]

----------------------------------------------------------------------------
\* C1 (as stated): after a full run, every cell holds the number of traces
\* that visit it, or the background value if none does.
C1Claim ==
    pc = "done" =>
        LET n == TraceCounts
        IN \A p \in GridCells :
              output.data[p] = IF n[p] > 0 THEN n[p] ELSE background_val

\* C1 (amended): after a full run, every cell whose back-link is not NoData
\* holds the number of traces that visit it, or the background value if none
\* does; a cell whose back-link is NoData and that no trace visits holds
\* NoData.
C1Thm ==
    pc = "done" =>
        LET n == TraceCounts
        IN \A p \in GridCells :
              IF backlink.data[p] # backlink.nodata
              THEN output.data[p] = IF n[p] > 0 THEN n[p] ELSE background_val
              ELSE n[p] = 0 => output.data[p] = backlink.nodata

\* A full run in which two traces pass through a cell that has a back-link,
\* and another cell with a back-link is visited by none.
C1Witness ==
    /\ pc = "done"
    /\ \E p \in GridCells : backlink.data[p] # backlink.nodata /\ TraceCounts[p] = 2
    /\ \E p \in GridCells : backlink.data[p] # backlink.nodata /\ TraceCounts[p] = 0

\* C2: after the full scan, every cell whose back-link is NoData (and that
\* therefore starts no trace) holds NoData, whatever traces visited it.
C2Claim ==
    pc = "done" =>
        \A p \in GridCells :
            (backlink.data[p] = backlink.nodata /\ ~IsTraceStart(p[1], p[2])) =>
                output.data[p] = backlink.nodata

\* C3 (as stated): after a full run, every cell no trace visited holds 0 when
\* zero_background is set and NoData when it is not.
C3Claim ==
    pc = "done" =>
        LET n == TraceCounts
        IN \A p \in GridCells :
              n[p] = 0 =>
                  output.data[p] = IF zero_background THEN 0 ELSE backlink.nodata

\* C3 (amended): after a full run, every cell no trace visited holds 0 when
\* zero_background is set and the cell's back-link is not NoData, and holds
\* NoData otherwise.
C3Thm ==
    pc = "done" =>
        LET n == TraceCounts
        IN \A p \in GridCells :
              n[p] = 0 =>
                  output.data[p] =
                      IF zero_background /\ backlink.data[p] # backlink.nodata
                      THEN 0
                      ELSE backlink.nodata

\* A full run with zero_background set in which a trace ran and two cells were
\* visited by none, one with a back-link and one without.
C3Witness ==
    /\ pc = "done"
    /\ zero_background
    /\ TraceStarts # {}
    /\ \E p \in GridCells : TraceCounts[p] = 0 /\ backlink.data[p] # backlink.nodata
    /\ \E p \in GridCells : TraceCounts[p] = 0 /\ backlink.data[p] = backlink.nodata

\* C4: the run and the run on the same rasters with the other zero_background
\* setting hold the same value in every cell a trace visited.
C4Claim ==
    pc = "done" =>
        LET n == TraceCounts
        IN \A p \in GridCells : n[p] > 0 => output.data[p] = paired[p]

\* C5: during and after the scan every cell of the output raster holds the
\* background value, NoData or a strictly positive count.
C5Claim ==
    pc \in {"scan", "trace", "done"} =>
        \A p \in GridCells :
            \/ output.data[p] = background_val
            \/ output.data[p] = backlink.nodata
            \/ output.data[p] > 0

\* C6: a trace is not still running on the raster after rows * columns
\* iterations: by then it has stopped in the LoopDetected state.
C6Claim ==
    (pc = "trace" /\ InGrid(output, y, x)
        /\ steps >= destination.rows * destination.columns)
        => trace_state = "LoopDetected"

\* C7: a trace whose back-link leads off the raster is in the OutOfBounds
\* state, and no raster is ever indexed outside its extents.
C7Claim ==
    /\ (pc = "trace" /\ ~InGrid(output, y, x)) => trace_state = "OutOfBounds"
    /\ ~offgrid

\* C8: a back-link that is positive, not NoData and none of the eight codes
\* is never used to index the offset table, and the trace that reads it is in
\* the CorruptPointer state.
C8Claim ==
    /\ ~misindexed
    /\ (pc = "trace" /\ InGrid(output, y, x)
          /\ Continues(backlink.data[<<y, x>>], backlink.nodata)
          /\ backlink.data[<<y, x>>] \notin ValidCodes)
        => trace_state = "CorruptPointer"

\* C9: a trace that met a corrupt back-link or left the raster does not abort
\* the run: the scan goes on and the output is written.
C9Claim ==
    (misindexed \/ offgrid) => pc # "aborted"

\* C10: rasters of different sizes end the run with InvalidInput before any
\* cell is scanned and nothing is written; rasters of the same size give an
\* output raster of that size.
C10Thm ==
    IF destination.rows # backlink.rows \/ destination.columns # backlink.columns
    THEN /\ pc \in {"start", "invalid_input"}
         /\ ~written
         /\ output.data = <<>>
         /\ row = 0 /\ col = 0 /\ steps = 0 /\ trace_state = "Idle"
    ELSE /\ pc # "invalid_input"
         /\ pc # "start" =>
              /\ output.rows = destination.rows /\ output.rows = backlink.rows
              /\ output.columns = destination.columns
              /\ output.columns = backlink.columns
              /\ DOMAIN output.data = GridCells

\* A run on rasters of different sizes that has ended.
C10Witness ==
    /\ pc = "invalid_input"
    /\ destination.columns # backlink.columns

----------------------------------------------------------------------------
IsExample == destination = ExampleDestination /\ backlink = ExampleBacklink

\* C11 (as stated): the 3x3 example ends with 1 at (2,0), (1,0) and (0,0) and
\* the background value (NoData, or 0 with zero_background) everywhere else.
C11Claim ==
    (IsExample /\ pc = "done") =>
        output.data =
            [p \in Cells(3, 3) |->
                IF p \in {<<2, 0>>, <<1, 0>>, <<0, 0>>} THEN 1
                ELSE IF zero_background THEN 0 ELSE -1]

\* C11 (amended): code 16 is the south-west offset, so the trace of the 3x3
\* example counts (2,0) and leaves the raster; a run that completes ends with
\* 1 at (2,0), the background value (NoData, or 0 with zero_background) at
\* (1,0), and NoData everywhere else.
C11Thm ==
    (IsExample /\ pc = "done") =>
        output.data =
            [p \in Cells(3, 3) |->
                IF p = <<2, 0>> THEN 1
                ELSE IF p = <<1, 0>> THEN (IF zero_background THEN 0 ELSE -1)
                ELSE -1]

\* The run on the 3x3 example with zero_background has completed.
C11Witness ==
    /\ IsExample
    /\ zero_background
    /\ pc = "done"
    /\ offgrid

----------------------------------------------------------------------------
\* The output as a function of the two rasters and the flag alone.

\* The position of cell p in the row-major scan.
ScanIndex(p) == p[1] * destination.columns + p[2]

\* The value of a cell that held v after n more visits.
RECURSIVE CountFrom(_, _, _)
CountFrom(v, bg, n) ==
    IF n = 0 THEN v ELSE CountFrom(IF v = bg THEN 1 ELSE v + 1, bg, n - 1)

\* A cell with a back-link starts at the background value and is counted by
\* every trace through it; a cell without one is NoData when the scan has
\* passed it and is counted by the traces that start later in the scan.
ExpectedOutput ==
    LET bg == IF zero_background THEN 0 ELSE backlink.nodata
        chains == [d \in TraceStarts |->
                     Chain(d[1], d[2], destination.rows * destination.columns)]
        through(p) == {d \in TraceStarts : p \in chains[d]}
    IN [p \in GridCells |->
          IF backlink.data[p] # backlink.nodata
          THEN CountFrom(bg, bg, Cardinality(through(p)))
          ELSE CountFrom(backlink.nodata, bg,
                  Cardinality({d \in through(p) : ScanIndex(d) > ScanIndex(p)}))]

\* C12: the output of a completed run is determined by the destination
\* raster, the back-link raster and the zero_background setting alone, so two
\* runs on identical inputs end with identical output rasters.
C12Thm ==
    pc = "done" => output.data = ExpectedOutput

\* A completed run in which a cell is counted by two traces and a cell without
\* back-link was counted after the scan had passed it.
C12Witness ==
    /\ pc = "done"
    /\ \E p \in GridCells : TraceCounts[p] = 2
    /\ \E p \in GridCells :
          backlink.data[p] = backlink.nodata /\ output.data[p] # backlink.nodata

----------------------------------------------------------------------------
\* A step of the scan at a cell whose back-link is NoData leaves NoData in that
\* cell of the output, whatever it held; and a cell that held another value
\* becomes NoData only in the step of the scan at that very cell.
ResetAtOwnScanPosition ==
    /\ (pc = "scan" /\ row < destination.rows
          /\ backlink.data[<<row, col>>] = backlink.nodata)
        => /\ output'.data[<<row, col>>] = backlink.nodata
           /\ pc' = "scan"
           /\ ScanIndex(<<row', col'>>) = ScanIndex(<<row, col>>) + 1
    /\ \A p \in DOMAIN output.data :
          (output.data[p] # backlink.nodata /\ output'.data[p] = backlink.nodata)
            => /\ pc = "scan"
               /\ p = <<row, col>>
               /\ backlink.data[p] = backlink.nodata

\* C13: when the scan reaches a cell whose back-link is NoData, the output
\* there is set to NoData even if an earlier trace has counted it; this reset
\* happens only at the cell's own scan position, never in a step of a trace.
C13Thm == [][ResetAtOwnScanPosition]_vars

\* The scan has just passed a cell without back-link that a trace from an
\* earlier destination had counted: the cell holds NoData again.
C13Witness ==
    /\ pc = "scan"
    /\ \E p \in GridCells :
          /\ backlink.data[p] = backlink.nodata
          /\ ScanIndex(p) + 1 = ScanIndex(<<row, col>>)
          /\ output.data[p] = backlink.nodata
          /\ \E d \in TraceStarts :
                /\ ScanIndex(d) < ScanIndex(p)
                /\ p \in Chain(d[1], d[2], destination.rows * destination.columns)

----------------------------------------------------------------------------
\* An iteration of the trace at a cell of the raster changes the output at
\* that cell and nowhere else: to 1 from the background value, by + 1
\* otherwise. If the back-link there is NoData or not positive the trace is
\* over and the scan goes on; if not, the trace is not over.
TraceStepCounts ==
    (pc = "trace" /\ y >= 0 /\ y < destination.rows
        /\ x >= 0 /\ x < destination.columns)
    => LET v == output.data[<<y, x>>]
           dir == backlink.data[<<y, x>>]
           terminal == dir = backlink.nodata \/ dir <= 0
       IN /\ output'.data =
                [output.data EXCEPT
                    ![<<y, x>>] = IF v = background_val THEN 1 ELSE v + 1]
          /\ terminal => /\ pc' = "scan"
                         /\ flag'
                         /\ trace_state' = "Terminal"
                         /\ <<x', y'>> = <<x, y>>
                         /\ ScanIndex(<<row', col'>>) = ScanIndex(<<row, col>>) + 1
          /\ ~terminal => /\ pc' \in {"trace", "aborted"}
                          /\ ~flag'
                          /\ trace_state' = "Active"

\* C14: each step of a trace updates exactly the current cell (1 from the
\* background value, + 1 otherwise) before the back-link is read, and the trace
\* stops at the first cell whose back-link is NoData or <= 0, after counting
\* it.
C14Thm == [][TraceStepCounts]_vars

\* A trace of at least two cells has just stopped at a cell whose back-link is
\* not positive and that it counted on top of an earlier trace.
C14Witness ==
    /\ pc = "scan"
    /\ trace_state = "Terminal"
    /\ steps >= 2
    /\ InGrid(output, y, x)
    /\ ~Continues(backlink.data[<<y, x>>], backlink.nodata)
    /\ output.data[<<y, x>>] = 2
    /\ ScanIndex(<<row, col>>) > ScanIndex(<<y, x>>) + 1

----------------------------------------------------------------------------
\* The (row offset, column offset) of the neighbours NE, E, SE, S, SW, W, NW, N.
CompassOffset(code) ==
    CASE code = 1 -> <<-1, 1>>
      [] code = 2 -> <<0, 1>>
      [] code = 4 -> <<1, 1>>
      [] code = 8 -> <<1, 0>>
      [] code = 16 -> <<1, -1>>
      [] code = 32 -> <<0, -1>>
      [] code = 64 -> <<-1, -1>>
      [] code = 128 -> <<-1, 0>>

Adjacent == ((-1..1) \X (-1..1)) \ {<<0, 0>>}

\* The table gives each code its compass offset, the eight offsets differ,
\* and an iteration of the trace that goes on moves (x, y) by the offset of
\* the back-link it read, to one of the eight neighbours.
TraceMovesByTable ==
    /\ \A code \in {1, 2, 4, 8, 16, 32, 64, 128} :
          <<StepY(code), StepX(code)>> = CompassOffset(code)
    /\ Cardinality({<<StepY(code), StepX(code)>> :
                        code \in {1, 2, 4, 8, 16, 32, 64, 128}}) = 8
    /\ (pc = "trace" /\ pc' = "trace")
        => /\ <<y' - y, x' - x>> \in Adjacent
           /\ backlink.data[<<y, x>>] \in {1, 2, 4, 8, 16, 32, 64, 128}
                => <<y' - y, x' - x>> = CompassOffset(backlink.data[<<y, x>>])

\* C15: the codes 1, 2, 4, 8, 16, 32, 64, 128 map to NE, E, SE, S, SW, W, NW,
\* N, i.e. to the offsets (-1,+1), (0,+1), (+1,+1), (+1,0), (+1,-1), (0,-1),
\* (-1,-1), (-1,0); the offsets are pairwise distinct and each step of a trace
\* moves to one of the eight adjacent cells.
C15Thm == [][TraceMovesByTable]_vars

\* A trace has followed code 64 from the centre of a 3x3 raster to its
\* north-west corner.
C15Witness ==
    /\ pc = "trace"
    /\ steps = 1
    /\ <<row, col>> = <<1, 1>>
    /\ backlink.data[<<1, 1>>] = 64
    /\ <<y, x>> = <<0, 0>>

----------------------------------------------------------------------------
\* Following the compass offsets from (yy, xx) for at most fuel cells stays on
\* the raster and arrives at a cell whose back-link is NoData or not positive.
RECURSIVE EndsAtTerminal(_, _, _)
EndsAtTerminal(yy, xx, fuel) ==
    /\ fuel > 0
    /\ <<yy, xx>> \in GridCells
    /\ LET dir == backlink.data[<<yy, xx>>]
       IN \/ dir = backlink.nodata
          \/ dir <= 0
          \/ /\ dir \in {1, 2, 4, 8, 16, 32, 64, 128}
             /\ EndsAtTerminal(yy + CompassOffset(dir)[1], xx + CompassOffset(dir)[2],
                               fuel - 1)

\* Rasters of one size, every back-link NoData, not positive or one of the
\* eight codes, and no chain from a destination cycles or leaves the raster.
WellFormedInputs ==
    /\ destination.rows = backlink.rows
    /\ destination.columns = backlink.columns
    /\ \A p \in GridCells :
          \/ backlink.data[p] = backlink.nodata
          \/ backlink.data[p] <= 0
          \/ backlink.data[p] \in {1, 2, 4, 8, 16, 32, 64, 128}
    /\ \A p \in GridCells :
          (destination.data[p] > 0 /\ backlink.data[p] # backlink.nodata)
            => EndsAtTerminal(p[1], p[2], destination.rows * destination.columns)

\* The inputs of Init that are well-formed, and all those of fewer than
\* MaxCells cells or of different sizes.
FairInit ==
    /\ Init
    /\ \/ destination.rows # backlink.rows
       \/ destination.columns # backlink.columns
       \/ destination.rows * destination.columns < MaxCells
       \/ WellFormedInputs

\* The run is one sequential thread: it takes its next step as long as it has
\* one.
FairSpec == FairInit /\ [][Next]_vars /\ WF_vars(Next)

\* No trace fails or runs for more than rows * columns iterations, a trace
\* that is over stands on a terminal cell, and the output is written when,
\* and only when, the scan has passed the last cell.
RunsCleanly ==
    /\ pc \notin {"aborted", "invalid_input"}
    /\ ~offgrid
    /\ ~misindexed
    /\ steps <= destination.rows * destination.columns
    /\ trace_state = "Terminal" =>
          /\ <<y, x>> \in GridCells
          /\ backlink.data[<<y, x>>] = backlink.nodata \/ backlink.data[<<y, x>>] <= 0
    /\ written <=> pc = "done"
    /\ pc = "done" => <<row, col>> = <<destination.rows, 0>>

\* C16: on well-formed inputs every trace ends at a terminal cell within
\* rows * columns cells, the scan reaches its end, and the output is written
\* once, after the last cell is scanned (no step follows the write).
C16Thm ==
    /\ [](WellFormedInputs => RunsCleanly)
    /\ (pc = "start" /\ WellFormedInputs) ~> (pc = "done" /\ written)
    /\ [][~written]_vars

\* A run on well-formed inputs has written its output after a trace of at
\* least two cells.
C16Witness ==
    /\ WellFormedInputs
    /\ pc = "done"
    /\ written
    /\ steps >= 2
    /\ \E p \in GridCells : TraceCounts[p] >= 2

====
